---------------------------- MODULE Spec2Model ----------------------------
(***************************************************************************)
(* A model of the programs of the XUI dashboard repository:                *)
(*   win/xui_update_check.py   the update checker (status/pull/apply/mark) *)
(*   win/extract_xui_payload.py, xui/extract_dashboard.py   heredoc tools  *)
(*   xui/win/pyqt_dashboard_improved.py, xui/pyqt_dashboard_improved_      *)
(*   fixed.py   the Casino slot machine of the two dashboards,             *)
(*   ensure_default_data, and of the Linux dashboard the Settings dialog,  *)
(*   the gamepad listener, the toasts and badges and the tile navigation.  *)
(* Each part has its own specification (SpecUpdate, SpecExtract,           *)
(* SpecSlots, SpecData, SpecSettings, SpecPad, SpecToast, SpecToastLive,   *)
(* SpecNav); the variables of the other parts stay at their idle values.   *)
(* Texts are sequences of one-character strings, so that strip() and the   *)
(* text searches are computed and not assumed.                             *)
(***************************************************************************)
EXTENDS Integers, Sequences, FiniteSets, TLC

VARIABLES
  \* ---- win/xui_update_check.py
  stateFile,    \* ~/.xui/data/update_state.json
  channelFile,  \* ~/.xui/data/update_channel.json
  gitInstalled, \* shutil.which("git") finds git
  srcGit,       \* (SRC / ".git").exists()
  head,         \* HEAD of the checkout at SRC (<<>> without a checkout)
  originRef,    \* origin/<branch> of the checkout
  remoteHead,   \* head of the branch on GitHub
  pc,           \* position of the running invocation ("idle": none runs)
  mode,         \* mode of the last invocation started
  child,        \* the subprocess run_stream waits for ("none")
  log,          \* what this invocation did, in order: <<kind, name, code>>
  rc,           \* value main() returned (exit code), -1 before the first
  raised,       \* the exception that ended the invocation ("" if none)
  out,          \* what compute_status reported
  meta,         \* apply_update's local: the remote_meta() result
  state0,       \* stateFile when the invocation started
  \* ---- heredoc tools
  hdExists,     \* the shell script given as the source exists
  hdLines,      \* the lines of the shell script
  hdRan,        \* the tool that was run on it ("none" before)
  hdResult,     \* what extract_last_heredoc returned
  hdMain,       \* what main() of extract_xui_payload.py did
  hdDash,       \* what extract_dashboard.py did
  \* ---- slot machine
  winFile,      \* slots.json beside the Windows dashboard
  winDlg,       \* the SlotMachineDialog of the Windows dashboard
  linFile,      \* slots.json beside the Linux dashboard
  linDlg,       \* the SlotMachineDialog of the Linux dashboard
  clicks,       \* Spin clicks made since the dialogs were opened
  \* ---- ensure_default_data
  files,        \* the data files: absent, the default, or other content
  canOpen,      \* whether open(file, 'w') succeeds
  filesBefore,  \* the data files before the last ensure_default_data
  calls,        \* calls of ensure_default_data made, up to 2
  \* ---- Settings dialog of the Linux dashboard
  settingsFile, \* ~/.xui/data/settings.json
  settingsDlg,  \* the Settings dialog: closed, open, accepted, rejected
  \* ---- GamepadListener of the Linux dashboard
  padNow,       \* time.time() * 1000 at the last poll, from 0
  padAxis,      \* the stick at the last poll: <<horizontal, vertical>>
  padHeld,      \* _held
  padLastEmit,  \* _last_emit
  padButtons,   \* _last_buttons of the joystick: the buttons that were down
  padEmitted,   \* the signals the last poll emitted
  padSince,     \* per direction, the time of the first poll of its hold
  \* ---- toasts and badges of the Linux dashboard's MainWindow
  toastVisible, \* _toast_label.isVisible()
  toastText,    \* _toast_label.text()
  toastEffect,  \* _toast_label.graphicsEffect() is set
  toastQueue,   \* _toast_queue (the texts; every duration is the default)
  toastHide,    \* single shots pending that call _hide_toast
  toastFade,    \* single shots pending that hide the label and show the next
  toastRequested, \* every text passed to show_toast by update_badges, in order
  toastShown,   \* every text the label was shown with, in order
  prevBadges,   \* _prev_badges
  badgeRead,    \* the counts the last update_badges read from the data files
  \* ---- tile navigation of the Linux dashboard's MainWindow
  navCell,      \* width and height of a cell of the tile grid, px
  current_index, \* MainWindow.current_index
  navKey,       \* the last key pressed ("none" before the first)
  navFrom,      \* current_index before the last key
  navCand       \* what _choose_by_direction returned for it (-1: None)

updVars == <<stateFile, channelFile, gitInstalled, srcGit, head, originRef,
             remoteHead, pc, mode, child, log, rc, raised, out, meta, state0>>
hdVars == <<hdExists, hdLines, hdRan, hdResult, hdMain, hdDash>>
slotVars == <<winFile, winDlg, linFile, linDlg, clicks>>
dataVars == <<files, canOpen, filesBefore, calls>>
setVars == <<settingsFile, settingsDlg>>
padVars == <<padNow, padAxis, padHeld, padLastEmit, padButtons, padEmitted, padSince>>
toastVars == <<toastVisible, toastText, toastEffect, toastQueue, toastHide, toastFade,
               toastRequested, toastShown, prevBadges, badgeRead>>
navVars == <<navCell, current_index, navKey, navFrom, navCand>>
dashVars == <<setVars, padVars, toastVars, navVars>>
vars == <<updVars, hdVars, slotVars, dataVars, dashVars>>

----------------------------------------------------------------------------
(* Bounds of the model *)

\* longest text (commit text in a file or in a response) that is enumerated
MaxLen == 2

----------------------------------------------------------------------------
(* Texts *)

\* the characters of the enumerated texts: a blank and a letter
Chars == {" ", "a"}

Texts == UNION {[1..n -> Chars] : n \in 0..MaxLen}

\* commit ids git and GitHub produce
Sha == {<<"a">>, <<"b">>}

RECURSIVE LStrip(_)
LStrip(s) == IF s # <<>> /\ Head(s) = " " THEN LStrip(Tail(s)) ELSE s

RECURSIVE RStrip(_)
RStrip(s) == IF s # <<>> /\ s[Len(s)] = " " THEN RStrip(SubSeq(s, 1, Len(s) - 1)) ELSE s

\* str.strip()
Strip(s) == RStrip(LStrip(s))

----------------------------------------------------------------------------
(* win/xui_update_check.py *)

DEFAULT_BRANCH == "windows"

\* a JSON file on disk: absent, unparsable, or an object with the one key read
JsonFiles(values) ==
  {[kind |-> "absent", value |-> <<>>], [kind |-> "corrupt", value |-> <<>>]}
    \cup {[kind |-> "json", value |-> v] : v \in values}

\* read_state_commit(): "" when the file is absent or unparsable
read_state_commit(f) == IF f.kind = "json" THEN Strip(f.value) ELSE <<>>

\* read_channel_branch()
read_channel_branch(f) == IF f.kind = "json" THEN f.value ELSE ""

\* resolve_branch() with XUI_UPDATE_BRANCH unset
resolve_branch(f) ==
  IF read_channel_branch(f) # "" THEN read_channel_branch(f) ELSE DEFAULT_BRANCH

TARGET_BRANCH == resolve_branch(channelFile)

\* what fetch_json can give remote_meta: an exception, or the commit object
Responses ==
  {[kind |-> "error", sha |-> <<>>]}
    \cup {[kind |-> "json", sha |-> s] :
            s \in {remoteHead, remoteHead \o <<" ">>, <<>>}}

\* remote_meta()
remote_meta(resp) ==
  IF resp.kind = "error"
  THEN [ok |-> FALSE, error |-> "exception", branch |-> TARGET_BRANCH, sha |-> <<>>]
  ELSE IF Strip(resp.sha) = <<>>
  THEN [ok |-> FALSE, error |-> "missing-remote-sha", branch |-> TARGET_BRANCH, sha |-> <<>>]
  ELSE [ok |-> TRUE, error |-> "", branch |-> TARGET_BRANCH, sha |-> Strip(resp.sha)]

NoMeta == [ok |-> FALSE, error |-> "", branch |-> "", sha |-> <<>>]

NoOut == [checked |-> FALSE, required |-> FALSE, reason |-> <<>>, branch |-> "",
          local_commit |-> <<>>, remote_commit |-> <<>>]

Ev(kind, name, code) == <<kind, name, code>>

\* exit codes a subprocess may end with
ExitCodes == {0, 2}

\* compute_status wrongly treating a missing local version as up to date
status_of_mutant(local_commit, m) ==
  IF ~m.ok
  THEN [checked |-> FALSE, required |-> FALSE,
        reason |-> <<"remote-unavailable:", m.error>>, branch |-> m.branch,
        local_commit |-> local_commit, remote_commit |-> <<>>]
  ELSE [checked |-> TRUE,
        required |-> (local_commit # <<>> /\ local_commit # m.sha),
        reason |-> IF local_commit # <<>> /\ local_commit # m.sha
                   THEN <<"outdated">> ELSE <<"up-to-date">>,
        branch |-> m.branch, local_commit |-> local_commit, remote_commit |-> m.sha]

\* compute_status wrongly demanding an update when the remote is unreachable
status_of_mutant2(local_commit, m) ==
  IF ~m.ok
  THEN [checked |-> FALSE, required |-> (local_commit = <<>>),
        reason |-> <<"remote-unavailable:", m.error>>, branch |-> m.branch,
        local_commit |-> local_commit, remote_commit |-> <<>>]
  ELSE [checked |-> TRUE,
        required |-> (local_commit = <<>> \/ local_commit # m.sha),
        reason |-> IF local_commit = <<>> THEN <<"missing-local-version">>
                   ELSE IF local_commit # m.sha THEN <<"outdated">>
                   ELSE <<"up-to-date">>,
        branch |-> m.branch, local_commit |-> local_commit, remote_commit |-> m.sha]

\* compute_status, lines 135-158: the report for a local commit and a meta
status_of(local_commit, m) ==
  IF ~m.ok
  THEN [checked |-> FALSE, required |-> FALSE,
        reason |-> <<"remote-unavailable:", m.error>>, branch |-> m.branch,
        local_commit |-> local_commit, remote_commit |-> <<>>]
  ELSE [checked |-> TRUE,
        required |-> (local_commit = <<>> \/ local_commit # m.sha),
        reason |-> IF local_commit = <<>> THEN <<"missing-local-version">>
                   ELSE IF local_commit # m.sha THEN <<"outdated">>
                   ELSE <<"up-to-date">>,
        branch |-> m.branch, local_commit |-> local_commit, remote_commit |-> m.sha]

\* compute_status, line 176
status_code(o) == IF o.required THEN 10 ELSE 0

\* what an invocation leaves alone besides its own results
UpdFrame == UNCHANGED <<channelFile, gitInstalled, remoteHead>>

NonUpdate == UNCHANGED <<hdVars, slotVars, dataVars, dashVars>>

\* main() begins: dispatch on the mode
Begin(m) ==
  /\ pc = "idle"
  /\ mode' = m
  /\ state0' = stateFile

\* everything compute_status does but the part of the disk it leaves alone
StatusBody ==
  /\ \E m \in {"status", "mandatory"} : Begin(m)
  /\ raised' = ""
  /\ \E revOk \in BOOLEAN, resp \in Responses :
       LET fromFile == read_state_commit(stateFile)
           useGit == fromFile = <<>> /\ srcGit /\ gitInstalled
           local_commit == IF useGit THEN (IF revOk THEN head ELSE <<>>) ELSE fromFile
           o == status_of(local_commit, remote_meta(resp))
       IN /\ revOk \/ useGit
          /\ log' = (IF useGit
                     THEN <<Ev("start", "rev-parse", 0),
                            Ev("exit", "rev-parse", IF revOk THEN 0 ELSE 128)>>
                     ELSE <<>>)
                    \o <<Ev("meta", "", IF remote_meta(resp).ok THEN 0 ELSE 1)>>
          /\ out' = o
          /\ rc' = status_code(o)
  /\ pc' = "idle"
  /\ UNCHANGED <<child, meta>>
  /\ UpdFrame

\* a status mode that records the remote commit as installed
MainStatusMarking ==
  /\ StatusBody
  /\ stateFile' = [kind |-> "json", value |-> out'.remote_commit]
  /\ UNCHANGED <<srcGit, head, originRef>>
  /\ NonUpdate

\* main(), modes "status" and "mandatory": compute_status
MainStatus ==
  /\ StatusBody
  /\ UNCHANGED <<stateFile, srcGit, head, originRef>>
  /\ NonUpdate

ChannelFiles ==
  {[kind |-> "absent", value |-> ""], [kind |-> "json", value |-> "beta"]}

\* find_installer(): the candidates, in order, with the suffix of each
\* (INSTALLER_NAME is the first; its default is the second)
InstallerCandidates ==
  <<[name |-> "INSTALLER_NAME", suffix |-> ".ps1"],
    [name |-> "win/install_xui_windows.ps1", suffix |-> ".ps1"],
    [name |-> "install_xui_windows.ps1", suffix |-> ".ps1"],
    [name |-> "win/install_xui_windows.bat", suffix |-> ".bat"],
    [name |-> "install_xui_windows.bat", suffix |-> ".bat"]>>

\* find_installer(): the first candidate that is a file of the checkout,
\* 0 when there is none (FileNotFoundError)
find_installer(present) ==
  IF \E i \in 1..Len(InstallerCandidates) : InstallerCandidates[i].name \in present
  THEN CHOOSE i \in 1..Len(InstallerCandidates) :
         /\ InstallerCandidates[i].name \in present
         /\ \A j \in 1..(i - 1) : InstallerCandidates[j].name \notin present
  ELSE 0

\* the sets of installer files a checkout may hold
InstallerFiles ==
  {{}, {"win/install_xui_windows.ps1"}, {"install_xui_windows.bat"},
   {"install_xui_windows.ps1", "win/install_xui_windows.bat"}}

\* apply_update carrying on after a failed git fetch
apply_next_ignoring_fetch(step, code) ==
  CASE step = "clone" -> IF code # 0 THEN "return" ELSE "fetch"
    [] step = "fetch" -> "checkout"
    [] step = "checkout" -> IF code # 0 THEN "return" ELSE "reset"
    [] step = "reset" -> IF code # 0 THEN "return" ELSE "clean"
    [] step = "clean" -> "find_installer"
    [] step = "installer" -> IF code # 0 THEN "return" ELSE "write_state"
    [] OTHER -> "return"

\* apply_update resetting before it checks the branch out
apply_next_reset_first(step, code) ==
  CASE step = "clone" -> IF code # 0 THEN "return" ELSE "fetch"
    [] step = "fetch" -> IF code # 0 THEN "return" ELSE "reset"
    [] step = "reset" -> IF code # 0 THEN "return" ELSE "checkout"
    [] step = "checkout" -> IF code # 0 THEN "return" ELSE "clean"
    [] step = "clean" -> "find_installer"
    [] step = "installer" -> IF code # 0 THEN "return" ELSE "write_state"
    [] OTHER -> "return"

\* apply_update, lines 227-271: where it goes after run_stream(step) gave
\* code ("return": it returns the code)
apply_next(step, code) ==
  CASE step = "clone" -> IF code # 0 THEN "return" ELSE "fetch"
    [] step = "fetch" -> IF code # 0 THEN "return" ELSE "checkout"
    [] step = "checkout" -> IF code # 0 THEN "return" ELSE "reset"
    [] step = "reset" -> IF code # 0 THEN "return" ELSE "clean"
    [] step = "clean" -> "find_installer"
    [] step = "installer" -> IF code # 0 THEN "return" ELSE "write_state"
    [] OTHER -> "return"

\* pull_only, lines 302-305
pull_next(step, code) ==
  CASE step = "fetch" -> IF code # 0 THEN "return" ELSE "checkout"
    [] OTHER -> "return"

\* the steps run_stream runs
StreamSteps == {"clone", "fetch", "checkout", "reset", "clean", "installer"}

\* main(), mode "apply": apply_update up to the first subprocess (lines 213-227)
MainApply ==
  /\ Begin("apply")
  /\ raised' = ""
  /\ IF ~gitInstalled
     THEN /\ log' = <<Ev("which", "git", 1)>>
          /\ rc' = 1 /\ pc' = "idle" /\ meta' = NoMeta
     ELSE \E resp \in Responses :
            LET m == remote_meta(resp) IN
            /\ meta' = m
            /\ log' = <<Ev("which", "git", 0), Ev("meta", "", IF m.ok THEN 0 ELSE 1)>>
            /\ IF ~m.ok
               THEN rc' = 1 /\ pc' = "idle"
               ELSE rc' = -1 /\ pc' = (IF srcGit THEN "fetch" ELSE "clone")
  /\ UNCHANGED <<stateFile, srcGit, head, originRef, child, out>>
  /\ UpdFrame
  /\ NonUpdate

\* run_stream, lines 180-188: Popen starts the subprocess
RunStreamPopen ==
  /\ pc \in StreamSteps
  /\ child = "none"
  /\ child' = pc
  /\ log' = Append(log, Ev("start", pc, 0))
  /\ UNCHANGED <<stateFile, srcGit, head, originRef, pc, mode, rc, raised, out, meta, state0>>
  /\ UpdFrame
  /\ NonUpdate

\* what a git command that succeeded did to the checkout
GitEffect(step, code) ==
  IF code # 0 \/ step \in {"clean", "installer"}
  THEN UNCHANGED <<srcGit, head, originRef>>
  ELSE CASE step = "clone" ->
              /\ srcGit' = TRUE /\ originRef' = remoteHead /\ head' \in Sha
         [] step = "fetch" ->
              /\ originRef' = remoteHead /\ UNCHANGED <<srcGit, head>>
         [] OTHER -> \* checkout -B branch origin/branch, reset --hard origin/branch
              /\ head' = originRef /\ UNCHANGED <<srcGit, originRef>>

\* run_stream, lines 189-192: the output is read to its end and wait() gives
\* the exit code; then the caller's test of it
RunStreamWait ==
  /\ child # "none"
  /\ \E code \in ExitCodes :
       LET next == IF mode = "apply" THEN apply_next(child, code)
                   ELSE pull_next(child, code)
       IN /\ GitEffect(child, code)
          /\ log' = Append(log, Ev("exit", child, code))
          /\ IF next = "return"
             THEN rc' = code /\ pc' = "idle"
             ELSE rc' = rc /\ pc' = next
  /\ child' = "none"
  /\ UNCHANGED <<stateFile, mode, raised, out, meta, state0>>
  /\ UpdFrame
  /\ NonUpdate

\* apply_update, lines 245-266: find_installer and the choice of the command
ApplyFindInstaller ==
  /\ pc = "find_installer"
  /\ \E present \in InstallerFiles, ps \in BOOLEAN :
       LET i == find_installer(present) IN
       IF i = 0
       THEN /\ log' = Append(log, Ev("find_installer", "", 1))
            /\ raised' = "FileNotFoundError" /\ rc' = 1 /\ pc' = "idle"
       ELSE IF InstallerCandidates[i].suffix = ".ps1" /\ ~ps
       THEN /\ log' = log \o <<Ev("find_installer", "", 0), Ev("which", "powershell", 1)>>
            /\ raised' = raised /\ rc' = 1 /\ pc' = "idle"
       ELSE /\ log' = Append(log, Ev("find_installer", "", 0))
            /\ raised' = raised /\ rc' = rc /\ pc' = "installer"
  /\ UNCHANGED <<stateFile, srcGit, head, originRef, mode, child, out, meta, state0>>
  /\ UpdFrame
  /\ NonUpdate

\* write_state() that leaves the file alone
write_state_nothing(commit, ok) ==
  stateFile' = stateFile

\* write_state(): the file is replaced, unless the write raises
write_state(commit, ok) ==
  stateFile' = IF ok THEN [kind |-> "json", value |-> commit] ELSE stateFile

\* apply_update, lines 273-291: rev-parse HEAD, write_state, return 0
ApplyWriteState ==
  /\ pc = "write_state"
  /\ \E revOk \in BOOLEAN, writeOk \in BOOLEAN :
       LET installed_commit == IF revOk THEN head ELSE meta.sha IN
       /\ write_state(installed_commit, writeOk)
       /\ log' = log \o <<Ev("start", "rev-parse", 0),
                           Ev("exit", "rev-parse", IF revOk THEN 0 ELSE 128),
                           Ev("write_state", "", IF writeOk THEN 0 ELSE 1)>>
  /\ rc' = 0
  /\ pc' = "idle"
  /\ UNCHANGED <<srcGit, head, originRef, mode, child, raised, out, meta, state0>>
  /\ UpdFrame
  /\ NonUpdate

\* main(), mode "pull": pull_only up to the first subprocess (lines 295-301)
MainPull ==
  /\ Begin("pull")
  /\ raised' = ""
  /\ IF ~gitInstalled
     THEN log' = <<Ev("which", "git", 1)>> /\ rc' = 1 /\ pc' = "idle"
     ELSE IF ~srcGit
     THEN log' = <<Ev("which", "git", 0)>> /\ rc' = 1 /\ pc' = "idle"
     ELSE log' = <<Ev("which", "git", 0)>> /\ rc' = -1 /\ pc' = "fetch"
  /\ UNCHANGED <<stateFile, srcGit, head, originRef, child, out, meta>>
  /\ UpdFrame
  /\ NonUpdate

\* main(), mode "release": release_info
MainRelease ==
  /\ Begin("release")
  /\ raised' = ""
  /\ \E ok \in BOOLEAN :
       /\ log' = <<Ev("release", "", IF ok THEN 0 ELSE 1)>>
       /\ rc' = IF ok THEN 0 ELSE 1
  /\ pc' = "idle"
  /\ UNCHANGED <<stateFile, srcGit, head, originRef, child, out, meta>>
  /\ UpdFrame
  /\ NonUpdate

\* main(), mode "mark": mark_current
MainMark ==
  /\ Begin("mark")
  /\ IF ~gitInstalled \/ ~srcGit
     THEN /\ log' = <<Ev("which", "git", IF gitInstalled THEN 0 ELSE 1)>>
          /\ rc' = 1 /\ raised' = "" /\ UNCHANGED stateFile
     ELSE \E revOk \in BOOLEAN, writeOk \in BOOLEAN :
            IF ~revOk
            THEN /\ log' = <<Ev("which", "git", 0), Ev("start", "rev-parse", 0),
                             Ev("exit", "rev-parse", 128)>>
                 /\ raised' = "CalledProcessError" /\ rc' = 1
                 /\ UNCHANGED stateFile
            ELSE /\ write_state(head, writeOk)
                 /\ log' = <<Ev("which", "git", 0), Ev("start", "rev-parse", 0),
                             Ev("exit", "rev-parse", 0),
                             Ev("write_state", "", IF writeOk THEN 0 ELSE 1)>>
                 /\ raised' = (IF writeOk THEN "" ELSE "OSError")
                 /\ rc' = (IF writeOk THEN 0 ELSE 1)
  /\ pc' = "idle"
  /\ UNCHANGED <<srcGit, head, originRef, child, out, meta>>
  /\ UpdFrame
  /\ NonUpdate

\* main(), any other mode: the usage line
MainUsage ==
  /\ Begin("usage")
  /\ raised' = ""
  /\ log' = <<>>
  /\ rc' = 1
  /\ pc' = "idle"
  /\ UNCHANGED <<stateFile, srcGit, head, originRef, child, out, meta>>
  /\ UpdFrame
  /\ NonUpdate

\* the branch on GitHub gets a new commit
RemotePush ==
  /\ remoteHead' \in Sha \ {remoteHead}
  /\ UNCHANGED <<stateFile, channelFile, gitInstalled, srcGit, head, originRef,
                 pc, mode, child, log, rc, raised, out, meta, state0>>
  /\ NonUpdate

InitUpdate ==
  /\ stateFile \in JsonFiles(Texts)
  /\ channelFile \in ChannelFiles
  /\ gitInstalled \in BOOLEAN
  /\ srcGit \in BOOLEAN
  /\ head \in (IF srcGit THEN Sha ELSE {<<>>})
  /\ originRef \in (IF srcGit THEN Sha ELSE {<<>>})
  /\ remoteHead \in Sha
  /\ pc = "idle"
  /\ mode = "none"
  /\ child = "none"
  /\ log = <<>>
  /\ rc = -1
  /\ raised = ""
  /\ out = NoOut
  /\ meta = NoMeta
  /\ state0 = stateFile

NextUpdate ==
  \/ MainStatus
  \/ MainApply
  \/ RunStreamPopen
  \/ RunStreamWait
  \/ ApplyFindInstaller
  \/ ApplyWriteState
  \/ MainPull
  \/ MainRelease
  \/ MainMark
  \/ MainUsage
  \/ RemotePush

IdleUpdate ==
  /\ stateFile = [kind |-> "absent", value |-> <<>>]
  /\ channelFile = [kind |-> "absent", value |-> ""]
  /\ gitInstalled = FALSE
  /\ srcGit = FALSE
  /\ head = <<>>
  /\ originRef = <<>>
  /\ remoteHead = <<"a">>
  /\ pc = "idle"
  /\ mode = "none"
  /\ child = "none"
  /\ log = <<>>
  /\ rc = -1
  /\ raised = ""
  /\ out = NoOut
  /\ meta = NoMeta
  /\ state0 = stateFile

----------------------------------------------------------------------------
(* win/extract_xui_payload.py and xui/extract_dashboard.py *)

\* The script text is a sequence of tokens: a newline, a character, the text
\* cat > "<target>" <<'<marker>' (without its newline) and a marker's text.
NL == <<"nl", "">>
Ch(c) == <<"ch", c>>
Cat(target, marker) == <<"cat", target, marker>>
Mk(marker) == <<"mk", marker>>

\* TARGETS
TARGETS ==
  <<[bash_target |-> "$DASH_DIR/pyqt_dashboard_improved.py",
     out_name |-> "pyqt_dashboard_improved.py", required |-> TRUE],
    [bash_target |-> "$BIN_DIR/xui_webhub.py",
     out_name |-> "xui_webhub.py", required |-> TRUE],
    [bash_target |-> "$BIN_DIR/xui_social_chat.py",
     out_name |-> "xui_social_chat.py", required |-> TRUE],
    [bash_target |-> "$GAMES_DIR/store.py",
     out_name |-> "xui_store_modern.py", required |-> TRUE],
    [bash_target |-> "$BIN_DIR/xui_global_guide.py",
     out_name |-> "xui_global_guide.py", required |-> TRUE],
    [bash_target |-> "$BIN_DIR/xui_first_setup.py",
     out_name |-> "xui_first_setup.py", required |-> FALSE],
    [bash_target |-> "$BIN_DIR/xui_game_lib.py",
     out_name |-> "xui_game_lib.py", required |-> FALSE],
    [bash_target |-> "$BIN_DIR/xui_web_api.py",
     out_name |-> "xui_web_api.py", required |-> FALSE]>>

\* extract_dashboard.py, lines 11 and 16: its target and its marker
DASH_TARGET == "$DASH_DIR/pyqt_dashboard_improved.py"
DASH_MARKER == "XUI_HEREDOC_4"

\* the file's text: every line followed by a newline
RECURSIVE Render(_)
Render(lines) ==
  IF lines = <<>> THEN <<>> ELSE Head(lines) \o <<NL>> \o Render(Tail(lines))

\* str.find(pat, from): the least index at or after from where pat occurs, 0
\* when there is none (indices from 1)
Find(text, pat, from) ==
  LET hits == {j \in from..(Len(text) - Len(pat) + 1) :
                 SubSeq(text, j, j + Len(pat) - 1) = pat}
  IN IF hits = {} THEN 0 ELSE CHOOSE j \in hits : \A k \in hits : j <= k

\* pattern.finditer: where cat > "<target>" <<'<marker>'\n occurs
HeaderMatches(text, target) ==
  {i \in 1..(Len(text) - 1) :
     text[i][1] = "cat" /\ text[i][2] = target /\ text[i + 1] = NL}

\* extract_last_heredoc
extract_last_heredoc(text, target) ==
  LET matches == HeaderMatches(text, target) IN
  IF matches = {} THEN [kind |-> "none", payload |-> <<>>]
  ELSE LET m == CHOOSE i \in matches : \A k \in matches : k <= i
           start == m + 2
           end == Find(text, <<NL, Mk(text[m][3]), NL>>, start)
           payload == SubSeq(text, start, end - 1)
       IN IF end = 0 THEN [kind |-> "raise", payload |-> <<>>]
          ELSE IF payload # <<>> /\ payload[Len(payload)] # NL
          THEN [kind |-> "ok", payload |-> Append(payload, NL)]
          ELSE [kind |-> "ok", payload |-> payload]

\* number of newlines of a text: block.count("\n")
CountNL(text) == Cardinality({i \in DOMAIN text : text[i] = NL})

\* main(), lines 57-70: the loop over TARGETS from entry i on
RECURSIVE payload_loop(_, _, _, _)
payload_loop(text, i, extracted, missing_required) ==
  IF i > Len(TARGETS)
  THEN [raised |-> FALSE, extracted |-> extracted, missing_required |-> missing_required]
  ELSE LET block == extract_last_heredoc(text, TARGETS[i].bash_target) IN
       IF block.kind = "raise"
       THEN [raised |-> TRUE, extracted |-> extracted, missing_required |-> missing_required]
       ELSE IF block.kind = "none"
       THEN payload_loop(text, i + 1, extracted,
                         IF TARGETS[i].required
                         THEN Append(missing_required, TARGETS[i].bash_target)
                         ELSE missing_required)
       ELSE payload_loop(text, i + 1,
                         extracted \cup {[out_name |-> TARGETS[i].out_name,
                                          source_target |-> TARGETS[i].bash_target,
                                          payload |-> block.payload,
                                          lines |-> CountNL(block.payload)]},
                         missing_required)

NoManifest == [written |-> FALSE, count |-> 0, files |-> {}]

\* main() of extract_xui_payload.py: the exit code, the exception that ended
\* it, the payload files written and the manifest
payload_main(exists, text) ==
  IF ~exists
  THEN [rc |-> 2, raised |-> "", wrote |-> {}, manifest |-> NoManifest]
  ELSE LET r == payload_loop(text, 1, {}, <<>>) IN
       IF r.raised
       THEN [rc |-> 1, raised |-> "RuntimeError", wrote |-> r.extracted,
             manifest |-> NoManifest]
       ELSE IF r.missing_required # <<>>
       THEN [rc |-> 3, raised |-> "", wrote |-> r.extracted, manifest |-> NoManifest]
       ELSE [rc |-> 0, raised |-> "", wrote |-> r.extracted,
             manifest |-> [written |-> TRUE, count |-> Cardinality(r.extracted),
                           files |-> {e.out_name : e \in r.extracted}]]

\* str.splitlines()
RECURSIVE SplitLines(_)
SplitLines(text) ==
  IF text = <<>> THEN <<>>
  ELSE LET k == Find(text, <<NL>>, 1) IN
       IF k = 0 THEN <<text>>
       ELSE <<SubSeq(text, 1, k - 1)>> \o SplitLines(SubSeq(text, k + 1, Len(text)))

\* "\n".join(lines)
RECURSIVE JoinLines(_)
JoinLines(lines) ==
  IF lines = <<>> THEN <<>>
  ELSE IF Len(lines) = 1 THEN lines[1]
  ELSE lines[1] \o <<NL>> \o JoinLines(Tail(lines))

\* len(re.match(r"^(\s*)", ln).group(1))
RECURSIVE Indent(_)
Indent(ln) == IF ln # <<>> /\ Head(ln) = Ch(" ") THEN 1 + Indent(Tail(ln)) ELSE 0

\* ln.strip() is not empty
NonBlank(ln) == Indent(ln) < Len(ln)

\* min(indents) if indents else 0
MinIndent(lines) ==
  LET indents == {Indent(lines[i]) : i \in {j \in DOMAIN lines : NonBlank(lines[j])}}
  IN IF indents = {} THEN 0 ELSE CHOOSE n \in indents : \A k \in indents : n <= k

\* extract_dashboard.py, line 29: ln[min_indent:] if len(ln) >= min_indent else ''
Cut(ln, n) == IF Len(ln) >= n THEN SubSeq(ln, n + 1, Len(ln)) ELSE <<>>

\* str.lstrip("\n")
RECURSIVE LStripNL(_)
LStripNL(text) == IF text # <<>> /\ Head(text) = NL THEN LStripNL(Tail(text)) ELSE text

\* extract_dashboard.py, lines 23-34
dedent_block(block) ==
  LET lines == SplitLines(block)
      min_indent == MinIndent(lines)
      dedented == IF min_indent > 0
                  THEN JoinLines([i \in DOMAIN lines |-> Cut(lines[i], min_indent)])
                  ELSE JoinLines(lines)
  IN IF dedented # <<>> /\ Head(dedented) = NL THEN LStripNL(dedented) ELSE dedented

\* extract_dashboard.py: the exit code and the text written
extract_dashboard(text) ==
  LET starts == {i \in HeaderMatches(text, DASH_TARGET) : text[i][3] = DASH_MARKER} IN
  IF starts = {} THEN [rc |-> 2, wrote |-> FALSE, text |-> <<>>]
  ELSE LET m == CHOOSE i \in starts : \A k \in starts : i <= k
           start == m + 2
           end == Find(text, <<NL, Mk(DASH_MARKER), NL>>, start)
       IN IF end = 0 THEN [rc |-> 3, wrote |-> FALSE, text |-> <<>>]
          ELSE [rc |-> 0, wrote |-> TRUE,
                text |-> dedent_block(SubSeq(text, start, end - 1))]

\* most lines of a heredoc body that is enumerated
MaxBody == 2

\* the lines a heredoc body is made of: empty, "x", " x", " "
BodyLines == {<<>>, <<Ch("x")>>, <<Ch(" "), Ch("x")>>, <<Ch(" ")>>}

Bodies == UNION {[1..n -> BodyLines] : n \in 0..MaxBody}

\* a heredoc: its start line, its body and its closing marker line
Block(target, marker, body) == <<<<Cat(target, marker)>>>> \o body \o <<<<Mk(marker)>>>>

\* scripts of one or two heredocs for the dashboard or the web hub
SmallScripts ==
  LET blocks == {Block(t, DASH_MARKER, b) :
                   t \in {TARGETS[1].bash_target, TARGETS[2].bash_target}, b \in Bodies}
  IN blocks \cup {a \o b : a \in blocks, b \in blocks}

\* the heredoc of TARGETS[i] in an installer script: absent, with a one-line
\* body or with an empty body; each heredoc has its own marker
TargetBlock(i, kind) ==
  CASE kind = "absent" -> <<>>
    [] kind = "body" -> Block(TARGETS[i].bash_target, TARGETS[i].out_name, <<<<Ch("x")>>>>)
    [] OTHER -> Block(TARGETS[i].bash_target, TARGETS[i].out_name, <<>>)

RECURSIVE InstallerScript(_, _)
InstallerScript(kinds, i) ==
  IF i > Len(TARGETS) THEN <<>>
  ELSE TargetBlock(i, kinds[i]) \o InstallerScript(kinds, i + 1)

\* installer scripts with each of the TARGETS present or not
InstallerScripts ==
  {InstallerScript(kinds, 1) :
     kinds \in [1..Len(TARGETS) ->
                  {"absent", "body", "empty"}]}

Text == Render(hdLines)

NoResult == [target |-> "", kind |-> "", payload |-> <<>>]
NoMain == [rc |-> -1, raised |-> "", wrote |-> {}, manifest |-> NoManifest]
NoDash == [rc |-> -1, wrote |-> FALSE, text |-> <<>>]

NonExtract == UNCHANGED <<updVars, slotVars, dataVars, dashVars>>

\* extract_last_heredoc is called for a target
ExtractLastHeredoc ==
  /\ hdRan = "none" /\ hdExists
  /\ \E t \in {TARGETS[1].bash_target, TARGETS[2].bash_target} :
       LET r == extract_last_heredoc(Text, t) IN
       hdResult' = [target |-> t, kind |-> r.kind, payload |-> r.payload]
  /\ hdRan' = "extract_last_heredoc"
  /\ UNCHANGED <<hdExists, hdLines, hdMain, hdDash>>
  /\ NonExtract

\* extract_xui_payload.py is run on the script
PayloadMain ==
  /\ hdRan = "none"
  /\ hdMain' = payload_main(hdExists, Text)
  /\ hdRan' = "main"
  /\ UNCHANGED <<hdExists, hdLines, hdResult, hdDash>>
  /\ NonExtract

\* extract_dashboard.py is run on the script
ExtractDashboard ==
  /\ hdRan = "none" /\ hdExists
  /\ hdDash' = extract_dashboard(Text)
  /\ hdRan' = "extract_dashboard"
  /\ UNCHANGED <<hdExists, hdLines, hdResult, hdMain>>
  /\ NonExtract

InitExtract ==
  /\ hdExists \in BOOLEAN
  /\ hdLines \in (IF hdExists THEN SmallScripts \cup InstallerScripts ELSE {<<>>})
  /\ hdRan = "none"
  /\ hdResult = NoResult
  /\ hdMain = NoMain
  /\ hdDash = NoDash

NextExtract ==
  \/ ExtractLastHeredoc
  \/ PayloadMain
  \/ ExtractDashboard

IdleExtract ==
  /\ hdExists = FALSE /\ hdLines = <<>> /\ hdRan = "none"
  /\ hdResult = NoResult /\ hdMain = NoMain /\ hdDash = NoDash

----------------------------------------------------------------------------
(* The Casino slot machine: xui/win/pyqt_dashboard_improved.py (Windows)
   and xui/pyqt_dashboard_improved_fixed.py (Linux) *)

\* SlotMachineDialog.SYMBOLS: cherries, bell, lemon, star, '7'
SYMBOLS == <<"cherries", "bell", "lemon", "star", "7">>

\* how many of the SYMBOLS (the last ones) the reels draw from
NumSymbols == 3

ReelSymbols == {SYMBOLS[i] : i \in (Len(SYMBOLS) - NumSymbols + 1)..Len(SYMBOLS)}

\* most spins whose timers are still to fire
MaxPending == 1

\* spins are tried only up to this many credits
MaxCredits == 100

\* the credits a slots.json may hold at the start
StartCredits == {0, 5, 10, 30}

SlotFiles ==
  {[kind |-> "absent", credits |-> 0], [kind |-> "corrupt", credits |-> 0]}
    \cup {[kind |-> "json", credits |-> n] : n \in StartCredits}

\* SlotMachineDialog.__init__: int(data.get('credits', 100)), 100 on any error
load_credits(f) == IF f.kind = "json" THEN f.credits ELSE 100

\* no dialog is open
NoDlg == [open |-> FALSE, hasCredits |-> FALSE, credits |-> 0,
          reels |-> <<"", "", "">>, timers |-> <<FALSE, FALSE, FALSE>>,
          pending |-> <<>>]

\* SlotMachineDialog(self) of the Windows dashboard, lines 26-61
WinOpen(f) == [open |-> TRUE, hasCredits |-> TRUE, credits |-> load_credits(f),
               reels |-> <<"", "", "">>, timers |-> <<FALSE, FALSE, FALSE>>,
               pending |-> <<>>]

\* SlotMachineDialog(self) of the Linux dashboard: the class body holds SYMBOLS
\* only (its methods are defined in GamepadListener), so QDialog.__init__
\* runs: no credits, no reels, no Spin button
LinOpen(f) == [NoDlg EXCEPT !.open = TRUE]

\* spin() without its test of the credits
WinSpin_unguarded(d) ==
  [d EXCEPT !.credits = d.credits - 10,
            !.timers = <<TRUE, TRUE, TRUE>>,
            !.pending = Append(d.pending, 0)]

\* spin(), Windows: the dialog after a click on Spin.  A pending spin is the
\* number of its three stop timers that have fired.
WinSpin(d) ==
  IF d.credits < 10 THEN d
  ELSE [d EXCEPT !.credits = d.credits - 10,
                 !.timers = <<TRUE, TRUE, TRUE>>,
                 !.pending = Append(d.pending, 0)]

\* a click where the Spin button would be, Linux: the dialog has no button
LinSpin(d) == d

\* _resolve paying 50 for every three of a kind
payout_flat(vals) ==
  IF vals[1] = vals[2] /\ vals[2] = vals[3]
  THEN 50
  ELSE IF vals[1] = vals[2] \/ vals[2] = vals[3] \/ vals[1] = vals[3]
  THEN 20
  ELSE 0

\* _resolve, lines 94-106: the prize for the three reels
payout(vals) ==
  IF vals[1] = vals[2] /\ vals[2] = vals[3]
  THEN (IF vals[1] = "7" THEN 200 ELSE 50)
  ELSE IF vals[1] = vals[2] \/ vals[2] = vals[3] \/ vals[1] = vals[3]
  THEN 20
  ELSE 0

NonSlots == UNCHANGED <<updVars, hdVars, dataVars, dashVars>>

\* on_tile_clicked('Casino') in both dashboards
OpenCasino ==
  /\ ~winDlg.open /\ ~linDlg.open
  /\ winDlg' = WinOpen(winFile)
  /\ linDlg' = LinOpen(linFile)
  /\ clicks' = 0
  /\ UNCHANGED <<winFile, linFile>>
  /\ NonSlots

\* the user clicks Spin in both dashboards
SpinClick ==
  /\ winDlg.open /\ linDlg.open
  /\ Len(winDlg.pending) < MaxPending
  /\ winDlg.credits <= MaxCredits
  /\ winDlg' = WinSpin(winDlg)
  /\ linDlg' = LinSpin(linDlg)
  /\ clicks' = 1
  /\ UNCHANGED <<winFile, linFile>>
  /\ NonSlots

\* _advance_reel(i): a running reel timer fires
AdvanceReel ==
  /\ \E i \in 1..3, sym \in ReelSymbols :
       /\ winDlg.timers[i]
       /\ winDlg' = [winDlg EXCEPT !.reels[i] = sym]
  /\ UNCHANGED <<winFile, linFile, linDlg, clicks>>
  /\ NonSlots

\* spin(), line 90: the single shot that stops reel timer i fires.  The stops
\* of one spin fire in the order of their durations, those of an earlier spin
\* before those of a later one, and a reel timer (50 to 90 ms) has fired
\* before its stop (800 ms and more).
StopTimer ==
  /\ \E k \in DOMAIN winDlg.pending :
       LET i == winDlg.pending[k] + 1 IN
       /\ i <= 3
       /\ k > 1 => winDlg.pending[k - 1] >= i
       /\ winDlg.reels[i] # ""
       /\ winDlg' = [winDlg EXCEPT !.timers[i] = FALSE, !.pending[k] = i]
  /\ UNCHANGED <<winFile, linFile, linDlg, clicks>>
  /\ NonSlots

\* _resolve: the single shot of the oldest spin fires, 50 ms after its last
\* stop; the write of slots.json may fail, which is ignored
Resolve ==
  /\ winDlg.pending # <<>>
  /\ winDlg.pending[1] = 3
  /\ \E writeOk \in BOOLEAN :
       LET c == winDlg.credits + payout(winDlg.reels) IN
       /\ winDlg' = [winDlg EXCEPT !.credits = c, !.pending = Tail(winDlg.pending)]
       /\ winFile' = IF writeOk THEN [kind |-> "json", credits |-> c] ELSE winFile
  /\ UNCHANGED <<linFile, linDlg, clicks>>
  /\ NonSlots

\* the dialogs are closed (exec_ returns) when no timer is pending
CloseCasino ==
  /\ winDlg.open /\ linDlg.open
  /\ winDlg.pending = <<>>
  /\ winDlg' = NoDlg
  /\ linDlg' = NoDlg
  /\ UNCHANGED <<winFile, linFile, clicks>>
  /\ NonSlots

InitSlots ==
  /\ winFile \in SlotFiles
  /\ linFile = winFile
  /\ winDlg = NoDlg
  /\ linDlg = NoDlg
  /\ clicks = 0

NextSlots ==
  \/ OpenCasino
  \/ SpinClick
  \/ AdvanceReel
  \/ StopTimer
  \/ Resolve
  \/ CloseCasino

IdleSlots ==
  /\ winFile = [kind |-> "absent", credits |-> 0]
  /\ linFile = [kind |-> "absent", credits |-> 0]
  /\ winDlg = NoDlg /\ linDlg = NoDlg /\ clicks = 0

----------------------------------------------------------------------------
(* ensure_default_data of xui/pyqt_dashboard_improved_fixed.py *)

\* the files ensure_default_data looks at, in its order
DataFiles ==
  <<"achievements.json", "friends.json", "notifications.json", "saldo.json",
    "missions.json", "store.json", "settings.json">>

DataNames == {DataFiles[i] : i \in 1..Len(DataFiles)}

\* most data files whose open(..., 'w') fails
MaxUnwritable == 1

\* ensure_default_data writing every default, also over an existing file
RECURSIVE ensure_from_overwriting(_, _, _)
ensure_from_overwriting(fs, can, i) ==
  IF i > Len(DataFiles) THEN fs
  ELSE IF ~can[DataFiles[i]] THEN fs
  ELSE ensure_from_overwriting([fs EXCEPT ![DataFiles[i]] = "default"], can, i + 1)

\* ensure_default_data, lines 23-64, from the i-th file on: a file that
\* exists is skipped; a failing open raises, which ends the function
RECURSIVE ensure_from(_, _, _)
ensure_from(fs, can, i) ==
  IF i > Len(DataFiles) THEN fs
  ELSE IF fs[DataFiles[i]] # "absent" THEN ensure_from(fs, can, i + 1)
  ELSE IF ~can[DataFiles[i]] THEN fs
  ELSE ensure_from([fs EXCEPT ![DataFiles[i]] = "default"], can, i + 1)

NonData == UNCHANGED <<updVars, hdVars, slotVars, dashVars>>

\* ensure_default_data()
EnsureDefaultData ==
  /\ calls < 2
  /\ filesBefore' = files
  /\ files' = ensure_from(files, canOpen, 1)
  /\ calls' = calls + 1
  /\ UNCHANGED canOpen
  /\ NonData

InitData ==
  /\ files \in [DataNames -> {"absent", "default", "other"}]
  /\ canOpen \in {c \in [DataNames -> BOOLEAN] :
                    Cardinality({f \in DataNames : ~c[f]}) <= MaxUnwritable}
  /\ filesBefore = files
  /\ calls = 0

NextData == EnsureDefaultData

IdleData ==
  /\ files = <<>> /\ canOpen = <<>> /\ filesBefore = <<>> /\ calls = 0

----------------------------------------------------------------------------
(* The Settings dialog of xui/pyqt_dashboard_improved_fixed.py *)

\* the keys do_save_settings sets
SavedKeys == {"sounds", "theme", "gamepad"}

\* keys of settings.json that the dialog does not know
OtherKeys == {"volume", "language"}

\* the values a key may have, as their JSON text
ValuesOf(k) ==
  CASE k = "sounds" -> {"true", "false"}
    [] k = "theme" -> {"dark", "light"}
    [] k = "gamepad" -> {"{deadzone:0.6,...}", "{deadzone:0.3,...}"}
    [] OTHER -> {"1", "2"}

\* the JSON objects settings.json may hold: functions from keys to values
SettingsObjects ==
  UNION {{o \in [S -> UNION {ValuesOf(k) : k \in S}] : \A k \in S : o[k] \in ValuesOf(k)}
           : S \in SUBSET (SavedKeys \cup OtherKeys)}

\* settings.json: absent, not JSON, a JSON object, or other JSON (an array)
SettingsFiles ==
  {[kind |-> "absent", obj |-> <<>>], [kind |-> "corrupt", obj |-> <<>>],
   [kind |-> "array", obj |-> <<>>]}
    \cup {[kind |-> "object", obj |-> o] : o \in SettingsObjects}

\* load_settings(): the JSON value of the file, {} when it is absent or
\* cannot be parsed
load_settings(f) ==
  IF f.kind \in {"object", "array"} THEN f ELSE [kind |-> "object", obj |-> <<>>]

\* d[k] = v on a dict
SetKey(o, k, v) == [x \in DOMAIN o \cup {k} |-> IF x = k THEN v ELSE o[x]]

\* do_save_settings building the dict from nothing
merged_fresh(cur, sounds, theme, gp) ==
  SetKey(SetKey(SetKey(<<>>, "sounds", sounds), "theme", theme), "gamepad", gp)

\* do_save_settings, lines 1003-1013: cur with the three keys set
merged(cur, sounds, theme, gp) ==
  SetKey(SetKey(SetKey(cur, "sounds", sounds), "theme", theme), "gamepad", gp)

\* save_settings(d): json.dump to the file; a failure is ignored
save_settings(f, d, writeOk) ==
  IF writeOk THEN [kind |-> "object", obj |-> d] ELSE f

NonSettings == UNCHANGED <<updVars, hdVars, slotVars, dataVars, padVars, toastVars, navVars>>

\* on_tile_clicked('Settings'): the dialog is built and shown
OpenSettings ==
  /\ settingsDlg # "open"
  /\ settingsDlg' = "open"
  /\ UNCHANGED settingsFile
  /\ NonSettings

\* do_save_settings: a click on Guardar.  Item assignment on a value that is
\* no dict raises, which rejects the dialog.
DoSaveSettings ==
  /\ settingsDlg = "open"
  /\ \E sounds \in ValuesOf("sounds"), theme \in ValuesOf("theme"),
        gp \in ValuesOf("gamepad"), writeOk \in BOOLEAN :
       LET cur == load_settings(settingsFile) IN
       IF cur.kind # "object"
       THEN /\ settingsDlg' = "rejected"
            /\ UNCHANGED settingsFile
       ELSE /\ settingsFile' =
                 save_settings(settingsFile, merged(cur.obj, sounds, theme, gp), writeOk)
            /\ settingsDlg' = "accepted"
  /\ NonSettings

\* the dialog is closed without Guardar
CloseSettings ==
  /\ settingsDlg = "open"
  /\ settingsDlg' = "closed"
  /\ UNCHANGED settingsFile
  /\ NonSettings

InitSettings ==
  /\ settingsFile \in SettingsFiles
  /\ settingsDlg = "closed"

NextSettings ==
  \/ OpenSettings
  \/ DoSaveSettings
  \/ CloseSettings

IdleSettings ==
  /\ settingsFile = [kind |-> "absent", obj |-> <<>>]
  /\ settingsDlg = "closed"

----------------------------------------------------------------------------
(* GamepadListener of xui/pyqt_dashboard_improved_fixed.py: one joystick,
   polled every 50 ms, with the default settings *)

\* self.repeat_initial: the delay before the first repeat, ms
repeat_initial == 350

\* self.repeat_rate: the time between repeats, ms
repeat_rate == 120

\* self.timer.start(50): the time between two polls, ms
PollInterval == 50

\* most polls made
MaxPolls == 8

Directions == {"left", "right", "up", "down"}

\* the buttons polled: btn_select, btn_back, btn_guide
Buttons == {"select", "back", "guide"}

\* an axis against the deadzone: below -deadzone, within, above deadzone
Zones == {"neg", "mid", "pos"}

\* the readings of one poll: the two axes and the buttons that are down
\* (none, or the select button)
Readings ==
  [ax0 : Zones, ax1 : Zones, down : {b \in SUBSET Buttons : b \subseteq {"select"}}]

AllFalse == [d \in Directions |-> FALSE]

AllZero == [d \in Directions |-> 0]

\* _maybe_emit(direction, now) on st = [held, last, em]; em are the signals
\* emitted.  repeat_initial is not read here.
maybe_emit(st, direction, now) ==
  IF ~st.held[direction]
  THEN [st EXCEPT !.held[direction] = TRUE, !.last[direction] = now,
                  !.em = @ \cup {direction}]
  ELSE IF now - st.last[direction] >= repeat_rate
  THEN [st EXCEPT !.last[direction] = now, !.em = @ \cup {direction}]
  ELSE st

\* poll, lines 234-239: the horizontal axis
poll_horizontal(st, ax0, now) ==
  IF ax0 = "neg" THEN maybe_emit(st, "left", now)
  ELSE IF ax0 = "pos" THEN maybe_emit(st, "right", now)
  ELSE [st EXCEPT !.held["left"] = FALSE, !.held["right"] = FALSE]

\* poll, lines 241-246: the vertical axis
poll_vertical(st, ax1, now) ==
  IF ax1 = "neg" THEN maybe_emit(st, "up", now)
  ELSE IF ax1 = "pos" THEN maybe_emit(st, "down", now)
  ELSE [st EXCEPT !.held["up"] = FALSE, !.held["down"] = FALSE]

\* the directions a reading holds
Held(ax0, ax1) ==
  (IF ax0 = "neg" THEN {"left"} ELSE IF ax0 = "pos" THEN {"right"} ELSE {})
    \cup (IF ax1 = "neg" THEN {"up"} ELSE IF ax1 = "pos" THEN {"down"} ELSE {})

NonPad == UNCHANGED <<updVars, hdVars, slotVars, dataVars, setVars, toastVars, navVars>>

\* poll(): the 50 ms timer fires
Poll ==
  /\ padNow < MaxPolls * PollInterval
  /\ \E r \in Readings :
       LET now == padNow + PollInterval
           since == [d \in Directions |->
                       IF d \in Held(r.ax0, r.ax1) /\ d \notin Held(padAxis[1], padAxis[2])
                       THEN now ELSE padSince[d]]
           st0 == [held |-> padHeld, last |-> padLastEmit, em |-> {}]
           st1 == poll_horizontal(st0, r.ax0, now)
           st2 == poll_vertical(st1, r.ax1, now)
       IN /\ padNow' = now
          /\ padAxis' = <<r.ax0, r.ax1>>
          /\ padSince' = since
          /\ padHeld' = st2.held
          /\ padLastEmit' = st2.last
          /\ padEmitted' = st2.em \cup (r.down \ padButtons)
          /\ padButtons' = r.down
  /\ NonPad

InitPad ==
  /\ padNow = 0
  /\ padAxis = <<"mid", "mid">>
  /\ padHeld = AllFalse
  /\ padLastEmit = AllZero
  /\ padButtons = {}
  /\ padEmitted = {}
  /\ padSince = AllZero

NextPad == Poll

IdlePad ==
  /\ padNow = 0 /\ padAxis = <<"mid", "mid">> /\ padHeld = AllFalse
  /\ padLastEmit = AllZero /\ padButtons = {} /\ padEmitted = {}
  /\ padSince = AllZero

----------------------------------------------------------------------------
(* Toasts and badges of MainWindow, xui/pyqt_dashboard_improved_fixed.py.
   update_badges is the only caller of show_toast. *)

\* update_badges runs while fewer toasts than this were requested
MaxRequested == 3

BadgeKeys == {"unread", "online", "missions", "ach"}

\* the count a data file may give: up to two unread messages, and none or
\* one friend online, mission, pending achievement
CountValues(k) == IF k = "unread" THEN {0, 1, 2} ELSE {0, 1}

\* the counts update_badges may read
BadgeCounts == {c \in [BadgeKeys -> {0, 1, 2}] : \A k \in BadgeKeys : c[k] \in CountValues(k)}

\* prev.get(k, 0)
Get(prev, k) == IF k \in DOMAIN prev THEN prev[k] ELSE 0

\* a toast text: f"{n} new messages" and the like, n = 0 for a text
\* without a number
ToastOf(n, what) == [n |-> n, what |-> what]

\* the toast state show_toast and the timers work on
ToastState ==
  [visible |-> toastVisible, text |-> toastText, effect |-> toastEffect,
   queue |-> toastQueue, hide |-> toastHide, fade |-> toastFade,
   shown |-> toastShown]

\* show_toast showing at once, whatever the label shows
show_toast_at_once(ts, text) ==
  [ts EXCEPT !.text = text, !.effect = TRUE, !.visible = TRUE,
             !.hide = @ + 1, !.shown = Append(@, text)]

\* show_toast(text), lines 703-723
show_toast(ts, text) ==
  IF ts.visible
  THEN [ts EXCEPT !.queue = Append(@, text)]
  ELSE [ts EXCEPT !.text = text, !.effect = TRUE, !.visible = TRUE,
                  !.hide = @ + 1, !.shown = Append(@, text)]

\* _hide_toast(), lines 725-737
hide_toast(ts) ==
  IF ~ts.effect THEN [ts EXCEPT !.visible = FALSE]
  ELSE [ts EXCEPT !.fade = @ + 1]

\* _maybe_show_next_toast dropping the queue
maybe_show_next_toast_dropping(ts) ==
  IF ts.queue # <<>> THEN [ts EXCEPT !.queue = <<>>] ELSE ts

\* _maybe_show_next_toast(), lines 739-745
maybe_show_next_toast(ts) ==
  IF ts.queue # <<>>
  THEN show_toast([ts EXCEPT !.queue = Tail(@)], Head(ts.queue))
  ELSE ts

\* the lambda of line 735: hide the label, then show the next toast
fade_done(ts) == maybe_show_next_toast([ts EXCEPT !.visible = FALSE])

\* update_badges announcing every count above 0
badge_toasts_absolute(prev, c) ==
  (IF 0 < c["unread"] THEN <<ToastOf(c["unread"], "new messages")>> ELSE <<>>)
  \o (IF 0 < c["online"] THEN <<ToastOf(c["online"], "friends online")>> ELSE <<>>)
  \o (IF 0 < c["missions"] THEN <<ToastOf(c["missions"], "new missions")>> ELSE <<>>)
  \o (IF Get(prev, "ach") > c["ach"] THEN <<ToastOf(0, "Achievement completed!")>> ELSE <<>>)

\* update_badges, lines 806-815: the toasts for counts c after prev, in order
badge_toasts(prev, c) ==
  (IF Get(prev, "unread") < c["unread"] /\ c["unread"] - Get(prev, "unread") > 0
   THEN <<ToastOf(c["unread"] - Get(prev, "unread"), "new messages")>> ELSE <<>>)
  \o (IF Get(prev, "online") < c["online"] /\ c["online"] - Get(prev, "online") > 0
      THEN <<ToastOf(c["online"] - Get(prev, "online"), "friends online")>> ELSE <<>>)
  \o (IF Get(prev, "missions") < c["missions"] /\ c["missions"] - Get(prev, "missions") > 0
      THEN <<ToastOf(c["missions"] - Get(prev, "missions"), "new missions")>> ELSE <<>>)
  \o (IF Get(prev, "ach") > c["ach"] /\ Get(prev, "ach") - c["ach"] > 0
      THEN <<ToastOf(0, "Achievement completed!")>> ELSE <<>>)

\* show_toast called with each text in turn
RECURSIVE show_all(_, _)
show_all(ts, texts) ==
  IF texts = <<>> THEN ts ELSE show_all(show_toast(ts, Head(texts)), Tail(texts))

\* the toast variables take the values of ts
SetToast(ts) ==
  /\ toastVisible' = ts.visible
  /\ toastText' = ts.text
  /\ toastEffect' = ts.effect
  /\ toastQueue' = ts.queue
  /\ toastHide' = ts.hide
  /\ toastFade' = ts.fade
  /\ toastShown' = ts.shown

NonToast == UNCHANGED <<updVars, hdVars, slotVars, dataVars, setVars, padVars, navVars>>

\* update_badges(): the single shot of line 520 or the 5 s timer fires
UpdateBadges ==
  /\ Len(toastRequested) < MaxRequested
  /\ \E c \in BadgeCounts :
       LET texts == badge_toasts(prevBadges, c) IN
       /\ SetToast(show_all(ToastState, texts))
       /\ toastRequested' = toastRequested \o texts
       /\ prevBadges' = c
       /\ badgeRead' = c
  /\ NonToast

\* the single shot of line 722 fires: _hide_toast()
HideToast ==
  /\ toastHide > 0
  /\ SetToast(hide_toast([ToastState EXCEPT !.hide = @ - 1]))
  /\ UNCHANGED <<toastRequested, prevBadges, badgeRead>>
  /\ NonToast

\* the single shot of line 735 fires
FadeDone ==
  /\ toastFade > 0
  /\ SetToast(fade_done([ToastState EXCEPT !.fade = @ - 1]))
  /\ UNCHANGED <<toastRequested, prevBadges, badgeRead>>
  /\ NonToast

InitToast ==
  /\ toastVisible = FALSE
  /\ toastText = ToastOf(0, "")
  /\ toastEffect = FALSE
  /\ toastQueue = <<>>
  /\ toastHide = 0
  /\ toastFade = 0
  /\ toastRequested = <<>>
  /\ toastShown = <<>>
  /\ prevBadges = <<>>
  /\ badgeRead = <<>>

NextToast ==
  \/ UpdateBadges
  \/ HideToast
  \/ FadeDone

IdleToast ==
  /\ toastVisible = FALSE /\ toastText = ToastOf(0, "") /\ toastEffect = FALSE
  /\ toastQueue = <<>> /\ toastHide = 0 /\ toastFade = 0
  /\ toastRequested = <<>> /\ toastShown = <<>>
  /\ prevBadges = <<>> /\ badgeRead = <<>>

----------------------------------------------------------------------------
(* Tile navigation of MainWindow, xui/pyqt_dashboard_improved_fixed.py *)

\* the grid cells of the tiles, lines 509-513: <<row, column>> of Casino (the
\* hero, two rows by two columns from <<0, 0>>) and of the ten others
positions ==
  <<<<0, 0>>, <<0, 2>>, <<1, 2>>, <<2, 0>>, <<2, 1>>, <<2, 2>>, <<3, 0>>, <<3, 1>>,
    <<3, 2>>, <<3, 3>>, <<4, 0>>>>

\* indices of self.tiles
TileIndices == 0..(Len(positions) - 1)

\* the sizes a grid cell may have, <<width, height>> in px: as on a screen,
\* and so small that neighbours are 10 px apart or less
CellSizes == {<<200, 140>>, <<12, 8>>, <<8, 12>>}

\* _tile_center(i): the centre of tile i in window coordinates, the cells
\* being all of one size; the hero covers four cells
tile_center(cell, i) ==
  LET pos == positions[i + 1]
  IN IF i = 0 THEN <<cell[1], cell[2]>>
     ELSE <<pos[2] * cell[1] + cell[1] \div 2, pos[1] * cell[2] + cell[2] \div 2>>

Abs(n) == IF n < 0 THEN -n ELSE n

\* tuple comparison score < best_score
ScoreLess(a, b) == a[1] < b[1] \/ (a[1] = b[1] /\ a[2] < b[2])

\* the loop of _choose_by_direction from tile i on taking a later tile on a tie
RECURSIVE choose_loop_last(_, _, _, _, _, _)
choose_loop_last(cell, cur, direction, i, best, best_score) ==
  IF i > Len(positions) - 1 THEN best
  ELSE LET c == tile_center(cell, i)
           curc == tile_center(cell, cur)
           dx == c[1] - curc[1]
           dy == c[2] - curc[2]
           skip == \/ i = cur
                   \/ direction = "right" /\ dx <= 10
                   \/ direction = "left" /\ dx >= -10
                   \/ direction = "down" /\ dy <= 10
                   \/ direction = "up" /\ dy >= -10
           score == IF direction \in {"right", "left"}
                    THEN <<Abs(dx), Abs(dy)>> ELSE <<Abs(dy), Abs(dx)>>
       IN IF skip THEN choose_loop_last(cell, cur, direction, i + 1, best, best_score)
          ELSE IF best = -1 \/ ~ScoreLess(best_score, score)
          THEN choose_loop_last(cell, cur, direction, i + 1, i, score)
          ELSE choose_loop_last(cell, cur, direction, i + 1, best, best_score)

\* the loop of _choose_by_direction, lines 842-863, from tile i on
RECURSIVE choose_loop(_, _, _, _, _, _)
choose_loop(cell, cur, direction, i, best, best_score) ==
  IF i > Len(positions) - 1 THEN best
  ELSE LET c == tile_center(cell, i)
           curc == tile_center(cell, cur)
           dx == c[1] - curc[1]
           dy == c[2] - curc[2]
           skip == \/ i = cur
                   \/ direction = "right" /\ dx <= 10
                   \/ direction = "left" /\ dx >= -10
                   \/ direction = "down" /\ dy <= 10
                   \/ direction = "up" /\ dy >= -10
           score == IF direction \in {"right", "left"}
                    THEN <<Abs(dx), Abs(dy)>> ELSE <<Abs(dy), Abs(dx)>>
       IN IF skip THEN choose_loop(cell, cur, direction, i + 1, best, best_score)
          ELSE IF best = -1 \/ ScoreLess(score, best_score)
          THEN choose_loop(cell, cur, direction, i + 1, i, score)
          ELSE choose_loop(cell, cur, direction, i + 1, best, best_score)

\* _choose_by_direction(direction); -1 stands for None
choose_by_direction(cell, cur, direction) ==
  choose_loop(cell, cur, direction, 0, -1, <<0, 0>>)

NonNav == UNCHANGED <<updVars, hdVars, slotVars, dataVars, setVars, padVars, toastVars>>

\* keyPressEvent with an arrow key (also posted by _nav_by_dir)
PressArrow ==
  /\ \E direction \in Directions :
       LET cand == choose_by_direction(navCell, current_index, direction) IN
       /\ navKey' = direction
       /\ navCand' = cand
       /\ current_index' = IF cand # -1 THEN cand ELSE current_index
  /\ navFrom' = current_index
  /\ UNCHANGED navCell
  /\ NonNav

\* keyPressEvent with Tab
PressTab ==
  /\ current_index' = (current_index + 1) % Len(positions)
  /\ navKey' = "tab"
  /\ navFrom' = current_index
  /\ navCand' = -1
  /\ UNCHANGED navCell
  /\ NonNav

InitNav ==
  /\ navCell \in CellSizes
  /\ current_index = 0
  /\ navKey = "none"
  /\ navFrom = 0
  /\ navCand = -1

NextNav ==
  \/ PressArrow
  \/ PressTab

IdleNav ==
  /\ navCell = <<0, 0>> /\ current_index = 0 /\ navKey = "none"
  /\ navFrom = 0 /\ navCand = -1

IdleDash == IdleSettings /\ IdlePad /\ IdleToast /\ IdleNav

InitSpecUpdate == InitUpdate /\ IdleExtract /\ IdleSlots /\ IdleData /\ IdleDash

SpecUpdate == InitSpecUpdate /\ [][NextUpdate]_vars

InitSpecExtract == IdleUpdate /\ InitExtract /\ IdleSlots /\ IdleData /\ IdleDash

SpecExtract == InitSpecExtract /\ [][NextExtract]_vars

InitSpecSlots == IdleUpdate /\ IdleExtract /\ InitSlots /\ IdleData /\ IdleDash

SpecSlots == InitSpecSlots /\ [][NextSlots]_vars

InitSpecData == IdleUpdate /\ IdleExtract /\ IdleSlots /\ InitData /\ IdleDash

SpecData == InitSpecData /\ [][NextData]_vars

InitSpecSettings == IdleUpdate /\ IdleExtract /\ IdleSlots /\ IdleData /\ InitSettings /\ IdlePad /\ IdleToast /\ IdleNav

SpecSettings == InitSpecSettings /\ [][NextSettings]_vars

InitSpecPad == IdleUpdate /\ IdleExtract /\ IdleSlots /\ IdleData /\ IdleSettings /\ InitPad /\ IdleToast /\ IdleNav

SpecPad == InitSpecPad /\ [][NextPad]_vars

InitSpecToast == IdleUpdate /\ IdleExtract /\ IdleSlots /\ IdleData /\ IdleSettings /\ IdlePad /\ InitToast /\ IdleNav

SpecToast == InitSpecToast /\ [][NextToast]_vars

\* the single-shot timers fire
SpecToastLive ==
  InitSpecToast /\ [][NextToast]_vars /\ WF_vars(HideToast) /\ WF_vars(FadeDone)

InitSpecNav == IdleUpdate /\ IdleExtract /\ IdleSlots /\ IdleData /\ IdleSettings /\ IdlePad /\ IdleToast /\ InitNav

SpecNav == InitSpecNav /\ [][NextNav]_vars

----------------------------------------------------------------------------
(* Claims about the update checker, checked under SpecUpdate *)

StatusDone == mode \in {"status", "mandatory"} /\ pc = "idle"

ApplyMode == mode = "apply"

LogHas(e) == \E i \in DOMAIN log : log[i] = e

\* C1: in status mode, when the remote commit was fetched, update_required is
\* true exactly when the local commit is empty (reason missing-local-version)
\* or differs from the remote sha (reason outdated), otherwise it is false with
\* reason up-to-date; the exit code is 10 iff update_required, else 0.  The
\* local commit is the stripped installed_commit of the state file when that
\* is not empty.
C1_StatusDecision ==
  (StatusDone /\ LogHas(Ev("meta", "", 0))) =>
    /\ out.checked
    /\ out.remote_commit \in Sha
    /\ (stateFile.kind = "json" /\ Strip(stateFile.value) # <<>>)
         => out.local_commit = Strip(stateFile.value)
    /\ out.required <=> (out.local_commit = <<>> \/ out.local_commit # out.remote_commit)
    /\ out.local_commit = <<>> => out.reason = <<"missing-local-version">>
    /\ (out.local_commit # <<>> /\ out.local_commit # out.remote_commit)
         => out.reason = <<"outdated">>
    /\ ~out.required => out.reason = <<"up-to-date">>
    /\ rc = 10 <=> out.required
    /\ rc \in {0, 10}

C1_Witness ==
  /\ StatusDone /\ LogHas(Ev("meta", "", 0))
  /\ out.reason = <<"outdated">> /\ rc = 10
  /\ stateFile.kind = "json" /\ stateFile.value # Strip(stateFile.value)

\* the steps of apply_update, in the order of the source
ApplyOrder ==
  <<"meta", "clone", "fetch", "checkout", "reset", "clean", "installer",
    "rev-parse", "write_state">>

\* the step an event of the log begins ("" when it begins none)
StepBegun(e) ==
  IF e[1] = "start" THEN e[2]
  ELSE IF e[1] \in {"meta", "write_state"} THEN e[1]
  ELSE ""

Pos(step) == CHOOSE k \in 1..Len(ApplyOrder) : ApplyOrder[k] = step

StepsBegun == {i \in DOMAIN log : StepBegun(log[i]) # ""}

\* C2: apply_update performs its steps in one fixed order with no overlap:
\* remote metadata, git clone (only without .git), git fetch, git checkout -B,
\* git reset --hard, git clean, the installer, (git rev-parse HEAD,) the
\* state-file write.  No step starts before the previous one has finished,
\* and the state file is written only after the installer has exited.
C2_ApplyOrder ==
  ApplyMode =>
    /\ \A i, j \in StepsBegun :
         i < j => Pos(StepBegun(log[i])) < Pos(StepBegun(log[j]))
    /\ \A i \in DOMAIN log :
         log[i][1] = "start" =>
           IF i = Len(log) THEN child = log[i][2]
           ELSE log[i + 1][1] = "exit" /\ log[i + 1][2] = log[i][2]
    /\ child # "none" => log[Len(log)] = Ev("start", child, 0)
    /\ child = "clone" => ~srcGit
    /\ (pc = "fetch" /\ ~LogHas(Ev("start", "clone", 0))) => srcGit
    /\ \A j \in DOMAIN log :
         log[j][1] = "write_state" =>
           \E i \in 1..(j - 1) : log[i] = Ev("exit", "installer", 0)
    /\ stateFile # state0 => LogHas(Ev("write_state", "", 0))
    /\ (pc = "idle" /\ rc = 0) =>
         {StepBegun(log[i]) : i \in StepsBegun} \cup {"clone"}
           = {ApplyOrder[k] : k \in 1..Len(ApplyOrder)}

C2_Witness ==
  /\ ApplyMode /\ pc = "idle" /\ rc = 0
  /\ LogHas(Ev("start", "clone", 0))
  /\ LogHas(Ev("write_state", "", 0))
  /\ stateFile # state0

\* an event that records the failure of a step of apply_update
Failure(e) ==
  \/ e = Ev("which", "git", 1)
  \/ e = Ev("meta", "", 1)
  \/ e[1] = "exit" /\ e[2] \in {"clone", "fetch", "checkout", "reset", "installer"}
       /\ e[3] # 0
  \/ e = Ev("find_installer", "", 1)
  \/ e = Ev("which", "powershell", 1)

\* C3: if a step of apply_update fails (no git, no remote metadata, git
\* clone/fetch/checkout/reset exits non-zero, no installer file, no PowerShell
\* for a .ps1 installer, the installer exits non-zero), apply_update does not
\* return 0, no later step is run and update_state.json is unchanged.
C3_ApplyFailure ==
  ApplyMode =>
    \A i \in DOMAIN log :
      Failure(log[i]) =>
        /\ i = Len(log)
        /\ pc = "idle"
        /\ child = "none"
        /\ rc # 0
        /\ stateFile = state0

C3_Witness ==
  /\ ApplyMode /\ pc = "idle"
  /\ log[Len(log)] = Ev("exit", "installer", 2)
  /\ rc = 2
  /\ stateFile.kind = "json"

\* C4: if fetching the remote commit raises or gives no sha, status reports
\* checked = false and update_required = false with a reason that begins
\* "remote-unavailable:", and exits 0, whatever the local commit is.
C4_RemoteUnavailable ==
  (StatusDone /\ LogHas(Ev("meta", "", 1))) =>
    /\ ~out.checked
    /\ ~out.required
    /\ Len(out.reason) >= 1 /\ out.reason[1] = "remote-unavailable:"
    /\ rc = 0

C4_Witness ==
  /\ StatusDone /\ LogHas(Ev("meta", "", 1))
  /\ out.local_commit = <<>>
  /\ out.reason = <<"remote-unavailable:", "missing-remote-sha">>

\* C5: status (and mandatory) is read-only: it leaves update_state.json and
\* update_channel.json unchanged and runs no git fetch, checkout, reset,
\* clean, clone nor the installer; only apply, pull and mark change the
\* checkout or the state file.
C5_StatusReadOnly ==
  [][/\ mode' \in {"status", "mandatory"} =>
          /\ stateFile' = stateFile
          /\ channelFile' = channelFile
          /\ <<srcGit, head, originRef>>' = <<srcGit, head, originRef>>
          /\ \A i \in DOMAIN log' :
               log'[i][1] \in {"start", "exit"} => log'[i][2] = "rev-parse"
     /\ (stateFile' # stateFile \/ <<srcGit, head, originRef>>' # <<srcGit, head, originRef>>)
          => mode' \in {"apply", "pull", "mark"}]_vars

C5_Witness ==
  /\ StatusDone /\ rc = 10
  /\ stateFile.kind = "json"
  /\ LogHas(Ev("exit", "rev-parse", 0))

----------------------------------------------------------------------------
(* Claims about the heredoc tools, checked under SpecExtract *)

IsHeader(line) == Len(line) = 1 /\ line[1][1] = "cat"

\* the heredocs of a script as the shell reads it: a start line, the lines up
\* to the first line that is the marker alone, and so on after that line
RECURSIVE ShellHeredocs(_)
ShellHeredocs(lines) ==
  IF lines = <<>> THEN <<>>
  ELSE IF ~IsHeader(Head(lines)) THEN ShellHeredocs(Tail(lines))
  ELSE LET h == Head(lines)[1]
           closing == {k \in 2..Len(lines) : lines[k] = <<Mk(h[3])>>}
       IN IF closing = {}
          THEN <<[target |-> h[2], marker |-> h[3], closed |-> FALSE,
                  body |-> Tail(lines)]>>
          ELSE LET k == CHOOSE c \in closing : \A d \in closing : c <= d
               IN <<[target |-> h[2], marker |-> h[3], closed |-> TRUE,
                     body |-> SubSeq(lines, 2, k - 1)]>>
                    \o ShellHeredocs(SubSeq(lines, k + 1, Len(lines)))

HeredocsFor(target) ==
  LET all == ShellHeredocs(hdLines)
  IN {i \in DOMAIN all : all[i].target = target}

\* C6: for a script with one or more heredocs for the target, each closed by
\* a line that is the marker alone, extract_last_heredoc returns exactly the
\* body of the last of them, each line ended by a newline, also when the
\* body is empty.
C6_LastHeredocBody ==
  (hdRan = "extract_last_heredoc" /\ HeredocsFor(hdResult.target) # {}
     /\ \A i \in HeredocsFor(hdResult.target) : ShellHeredocs(hdLines)[i].closed)
  => LET last == CHOOSE i \in HeredocsFor(hdResult.target) :
                   \A k \in HeredocsFor(hdResult.target) : k <= i
     IN /\ hdResult.kind = "ok"
        /\ hdResult.payload = Render(ShellHeredocs(hdLines)[last].body)

Found(target) == HeredocsFor(target) # {}

AllRequiredFound ==
  \A i \in 1..Len(TARGETS) : TARGETS[i].required => Found(TARGETS[i].bash_target)

\* C7: main of extract_xui_payload writes manifest.json and returns 0 exactly
\* when every required target is found in the source; with a required target
\* missing it returns 3 and writes no manifest; a missing optional target is
\* skipped, and the manifest's count is the number of payload files written.
C7_PayloadMain ==
  (hdRan = "main" /\ hdExists) =>
    /\ AllRequiredFound <=> (hdMain.rc = 0 /\ hdMain.manifest.written)
    /\ ~AllRequiredFound => (hdMain.rc = 3 /\ ~hdMain.manifest.written)
    /\ hdMain.manifest.written =>
         /\ hdMain.manifest.count = Cardinality(hdMain.wrote)
         /\ hdMain.manifest.count =
              Cardinality({i \in 1..Len(TARGETS) : Found(TARGETS[i].bash_target)})

DashHeredocs ==
  LET all == ShellHeredocs(hdLines)
  IN {i \in DOMAIN all :
        all[i].target = DASH_TARGET /\ all[i].marker = DASH_MARKER /\ all[i].closed}

\* a line without the first n of its leading blanks
RemoveIndent(line, n) ==
  LET k == IF Indent(line) < n THEN Indent(line) ELSE n
  IN SubSeq(line, k + 1, Len(line))

\* C8: extract_dashboard preserves all lines of the heredoc body: the file
\* written has as many lines, in the same order, and each is the body's line
\* without the common leading indentation (the least indentation of the
\* non-blank lines).
C8_DashboardLines ==
  (hdRan = "extract_dashboard" /\ DashHeredocs # {}) =>
    LET first == CHOOSE i \in DashHeredocs : \A k \in DashHeredocs : i <= k
        body == ShellHeredocs(hdLines)[first].body
    IN /\ hdDash.wrote
       /\ SplitLines(hdDash.text)
            = [i \in DOMAIN body |-> RemoveIndent(body[i], MinIndent(body))]

----------------------------------------------------------------------------
(* Claims about the dashboards, checked under SpecSlots and SpecData *)

\* C9: the Linux and the Windows dashboard implement the same slot machine:
\* from the same slots.json and with the same Spin clicks and reel outcomes,
\* the dialog of the Casino tile ends with the same credits in memory and in
\* slots.json in both.
C9_SameCasino ==
  (winDlg.open /\ linDlg.open /\ clicks > 0 /\ winDlg.pending = <<>>) =>
    /\ linDlg.hasCredits = winDlg.hasCredits
    /\ linDlg.credits = winDlg.credits
    /\ linFile = winFile

\* C10: ensure_default_data creates a default file only for those of its
\* seven files that do not exist; a file that exists is left unchanged, so a
\* second call changes nothing.
C10_EnsureDefaults ==
  /\ calls >= 1 =>
       \A f \in DataNames :
         /\ filesBefore[f] # "absent" => files[f] = filesBefore[f]
         /\ files[f] # filesBefore[f] => files[f] = "default"
  /\ calls >= 2 => files = filesBefore

C10_Witness ==
  /\ calls = 2
  /\ files["settings.json"] = "other"
  /\ files["friends.json"] = "default"
  /\ files["store.json"] = "absent"
  /\ files["achievements.json"] = "default"

\* a reel timer is started or a payout is scheduled in this step
Scheduled ==
  \/ Len(winDlg'.pending) > Len(winDlg.pending)
  \/ \E i \in 1..3 : winDlg'.timers[i] /\ ~winDlg.timers[i]

\* nothing of the spin before is still to come
AtRest == winDlg.pending = <<>> /\ \A i \in 1..3 : ~winDlg.timers[i]

\* C11: a spin costs exactly 10 credits and is accepted only with 10 credits
\* or more: the credits go down only by 10, together with the start of the
\* three reel timers and the scheduling of one payout, and only from 10 or
\* more; with fewer than 10 credits a click on Spin changes neither credits
\* nor reels and schedules nothing.  From non-negative credits the credits
\* are never negative.
C11_SpinCost ==
  [][(winDlg.open /\ winDlg'.open) =>
       /\ winDlg'.credits < winDlg.credits =>
            /\ winDlg.credits >= 10
            /\ winDlg'.credits = winDlg.credits - 10
            /\ winDlg'.timers = <<TRUE, TRUE, TRUE>>
            /\ winDlg'.pending = Append(winDlg.pending, 0)
            /\ winDlg'.reels = winDlg.reels
       /\ Scheduled =>
            /\ winDlg.credits >= 10
            /\ winDlg'.credits = winDlg.credits - 10
       /\ (winDlg.credits < 10 /\ AtRest) => winDlg' = winDlg
       /\ winDlg'.credits >= 0]_vars

\* a click on Spin with 5 credits was refused
C11_Witness ==
  /\ winDlg.open /\ clicks > 0
  /\ winDlg.credits = 5
  /\ winDlg.reels = <<"", "", "">>
  /\ AtRest

\* the prize as the claim words it, by the number of different symbols
Prize(vals) ==
  LET kinds == Cardinality({vals[1], vals[2], vals[3]})
  IN IF kinds = 1 THEN (IF vals[1] = "7" THEN 200 ELSE 50)
     ELSE IF kinds = 2 THEN 20
     ELSE 0

\* a step in which _resolve ran
Evaluated ==
  /\ winDlg.open /\ winDlg'.open
  /\ Len(winDlg'.pending) < Len(winDlg.pending)

\* C12 as stated: the payout evaluation adds 200 for three '7', 50 for three
\* of another symbol, 20 for exactly two alike and 0 otherwise, and
\* slots.json holds the in-memory credits after every evaluation.
C12_PayoutAndSave ==
  [][Evaluated =>
       /\ winDlg'.credits = winDlg.credits + Prize(winDlg.reels)
       /\ winFile' = [kind |-> "json", credits |-> winDlg'.credits]]_vars

\* C12 amended: the payout evaluation adds 200 for three '7', 50 for three of
\* another symbol, 20 for exactly two alike and 0 otherwise, and then writes
\* the credits to slots.json; when the write succeeds the file holds the
\* in-memory credits, when it fails the error is ignored and the file is
\* left as it was.
C12_PayoutAndSaveIfWritable ==
  [][Evaluated =>
       /\ winDlg'.credits = winDlg.credits + Prize(winDlg.reels)
       /\ \/ winFile' = [kind |-> "json", credits |-> winDlg'.credits]
          \/ winFile' = winFile]_vars

\* three '7' paid 200 after a spin from 100 credits, and the file has them
C12_Witness ==
  /\ winDlg.open /\ clicks > 0 /\ AtRest
  /\ winDlg.reels = <<"7", "7", "7">>
  /\ winDlg.credits = 290
  /\ winFile = [kind |-> "json", credits |-> 290]

----------------------------------------------------------------------------
(* Claims about the Linux dashboard *)

\* the keys and values of settings.json ({} when it holds no object)
FileObject(f) == IF f.kind = "object" THEN f.obj ELSE <<>>

\* C13: saving the Settings dialog merges with the existing settings: when
\* it changes settings.json, the file holds the keys it held before and
\* 'sounds', 'theme' and 'gamepad', and every other key that was present
\* keeps its value.
C13_SaveMerges ==
  [][settingsFile' # settingsFile =>
       /\ settingsFile'.kind = "object"
       /\ DOMAIN settingsFile'.obj = DOMAIN FileObject(settingsFile) \cup SavedKeys
       /\ \A k \in DOMAIN FileObject(settingsFile) \ SavedKeys :
            settingsFile'.obj[k] = FileObject(settingsFile)[k]]_vars

\* a save was accepted and the file has the dialog's keys beside two others
C13_Witness ==
  /\ settingsDlg = "accepted"
  /\ settingsFile.kind = "object"
  /\ DOMAIN settingsFile.obj = SavedKeys \cup OtherKeys
  /\ settingsFile.obj["theme"] = "light"
  /\ settingsFile.obj["volume"] = "2"

\* the directions the stick held at the last poll
HeldNow == Held(padAxis[1], padAxis[2])

\* C14: hold-to-repeat.  A direction that goes beyond the deadzone is
\* emitted on that first poll; while it stays held there is no repeat until
\* repeat_initial has passed since the first emission, and the repeats after
\* that are repeat_rate or more apart.
C14_HoldToRepeat ==
  [][\A d \in Directions :
       LET heldBefore == d \in HeldNow
           heldAfter == d \in Held(padAxis'[1], padAxis'[2])
       IN /\ (heldAfter /\ ~heldBefore) => d \in padEmitted'
          /\ (heldAfter /\ heldBefore /\ d \in padEmitted') =>
               /\ padNow' - padSince'[d] >= repeat_initial
               /\ padNow' - padLastEmit[d] >= repeat_rate
          /\ ~heldAfter => d \notin padEmitted']_vars

\* a toast was put on the label in this step
Displayed == toastShown' # toastShown

\* C15: at most one toast is displayed at a time.  A toast requested while
\* the label is visible (also during the fade-out) goes to the end of the
\* queue and the label keeps its toast; a toast is put on the label only
\* when the label was hidden or is hidden in the same step by the end of the
\* fade-out; the toasts shown so far followed by the queue are the toasts
\* requested, in their order (FIFO, each once).
C15_OneToastFifo ==
  [][/\ (toastVisible /\ toastRequested' # toastRequested) =>
          /\ toastQueue' = toastQueue \o
               SubSeq(toastRequested', Len(toastRequested) + 1, Len(toastRequested'))
          /\ ~Displayed
          /\ toastVisible' /\ toastText' = toastText
     /\ Displayed =>
          /\ ~toastVisible \/ toastFade' = toastFade - 1
          /\ Len(toastShown') = Len(toastShown) + 1
          /\ toastVisible' /\ toastText' = toastShown'[Len(toastShown')]
     /\ toastShown' \o toastQueue' = toastRequested'
     /\ toastQueue' # <<>> => toastVisible'
     /\ toastText' # toastText => Displayed]_vars

\* the second toast is on the label and a third one waits
C15_Witness ==
  /\ toastVisible
  /\ Len(toastShown) = 2
  /\ Len(toastQueue) = 1
  /\ toastShown[1] # toastShown[2]

\* C16: with the single-shot timers firing, every toast passed to show_toast
\* is displayed in the end, and when no more toasts are requested the queue
\* is empty and the label hidden from some time on.
C16_ToastsDrain ==
  /\ \A k \in 1..(MaxRequested + Cardinality(BadgeKeys)) :
       (Len(toastRequested) >= k) ~> (Len(toastShown) >= k)
  /\ <>[](toastQueue = <<>> /\ ~toastVisible)

\* three toasts were shown and the label is hidden again
C16_Witness ==
  /\ Len(toastShown) >= 3
  /\ toastShown = toastRequested
  /\ ~toastVisible /\ toastQueue = <<>>
  /\ toastHide = 0 /\ toastFade = 0

\* the toasts update_badges requested in this step
NewToasts == SubSeq(toastRequested', Len(toastRequested) + 1, Len(toastRequested'))

\* the toasts of this step that say what
NewSaying(what) == {i \in DOMAIN NewToasts : NewToasts[i].what = what}

\* a toast for the increase of the count of key, exactly when it increased
IncreaseToast(key, what) ==
  LET before == Get(prevBadges, key)
      now == badgeRead'[key]
  IN /\ now > before =>
          \E i \in NewSaying(what) : NewToasts[i].n = now - before
     /\ now <= before => NewSaying(what) = {}
     /\ Cardinality(NewSaying(what)) <= 1

Along(cur, i, direction) ==
  LET dx == tile_center(navCell, i)[1] - tile_center(navCell, cur)[1]
      dy == tile_center(navCell, i)[2] - tile_center(navCell, cur)[2]
  IN CASE direction = "right" -> dx
       [] direction = "left" -> -dx
       [] direction = "down" -> dy
       [] OTHER -> -dy

Across(cur, i, direction) ==
  LET dx == tile_center(navCell, i)[1] - tile_center(navCell, cur)[1]
      dy == tile_center(navCell, i)[2] - tile_center(navCell, cur)[2]
  IN IF direction \in {"right", "left"} THEN Abs(dy) ELSE Abs(dx)

\* the tiles more than 10 px from tile cur in the direction
InDirection(cur, direction) ==
  {i \in TileIndices \ {cur} : Along(cur, i, direction) > 10}

\* C18: _choose_by_direction returns the tile, other than the current one,
\* more than 10 px away in the direction that is nearest along the direction,
\* then nearest across it, then lowest in index; with no tile in the
\* direction it returns None and the key leaves current_index as it is.
\* current_index is always an index of tiles.
C18_ChooseByDirection ==
  /\ current_index \in TileIndices
  /\ navKey \in Directions =>
       LET tiles == InDirection(navFrom, navKey) IN
       IF tiles = {}
       THEN navCand = -1 /\ current_index = navFrom
       ELSE /\ navCand \in tiles
            /\ current_index = navCand
            /\ \A j \in tiles :
                 \/ Along(navFrom, navCand, navKey) < Along(navFrom, j, navKey)
                 \/ /\ Along(navFrom, navCand, navKey) = Along(navFrom, j, navKey)
                    /\ Across(navFrom, navCand, navKey) < Across(navFrom, j, navKey)
                 \/ /\ Along(navFrom, navCand, navKey) = Along(navFrom, j, navKey)
                    /\ Across(navFrom, navCand, navKey) = Across(navFrom, j, navKey)
                    /\ navCand <= j

\* Right from Casino with cells 8 px wide: the tiles of the next column are
\* too near, Runner and Store are equally near, Runner is taken
C18_Witness ==
  /\ navCell = <<8, 12>>
  /\ navKey = "right" /\ navFrom = 0
  /\ current_index = 1
  /\ Along(0, 1, "right") = Along(0, 2, "right")
  /\ Across(0, 1, "right") = Across(0, 2, "right")

Opposite(direction) ==
  CASE direction = "left" -> "right"
    [] direction = "right" -> "left"
    [] direction = "up" -> "down"
    [] OTHER -> "up"

\* C19: when an arrow key has moved the focus from tile A to tile B, the
\* opposite arrow key pressed next moves it back to A, for every tile A of
\* the grid as it is on a screen.
C19_OppositeReturns ==
  [][(/\ navCell = <<200, 140>>
      /\ navKey \in Directions
      /\ navCand # -1
      /\ navKey' = Opposite(navKey)
      /\ navFrom' = current_index)
     => current_index' = navFrom]_vars

----------------------------------------------------------------------------
(* The update checker again: status after apply or mark *)

\* apply_update has returned 0 and the branch head on GitHub is the one it
\* was told of and fetched
Applied ==
  /\ mode = "apply" /\ pc = "idle" /\ rc = 0
  /\ meta.sha = remoteHead /\ originRef = remoteHead

\* mark has returned 0 and HEAD is the branch head on GitHub
Marked ==
  /\ mode = "mark" /\ pc = "idle" /\ rc = 0
  /\ head = remoteHead

\* this step is a status check that got the remote commit
StatusStep ==
  /\ mode' = "status" /\ pc' = "idle"
  /\ \E i \in DOMAIN log' : log'[i] = Ev("meta", "", 0)

UpToDate ==
  /\ ~out'.required
  /\ out'.reason = <<"up-to-date">>
  /\ rc' = 0

\* C20 as stated: after apply_update has returned 0, a status check against
\* the unchanged remote head reports update_required = false, reason
\* up-to-date and exit code 0; likewise after mark has returned 0 with HEAD
\* at the remote head.
C20_StatusAfterApply ==
  [][((Applied \/ Marked) /\ StatusStep) => UpToDate]_vars

\* C20 amended: the same when apply_update has written update_state.json;
\* when that write failed (apply_update only warns and still returns 0) the
\* status check goes by the old state file and may report outdated.
C20_StatusAfterStateWritten ==
  [][(/\ \/ Applied /\ LogHas(Ev("write_state", "", 0))
         \/ Marked
      /\ StatusStep)
     => UpToDate]_vars

\* a status check found the commit that an apply had recorded up to date
C20_Witness ==
  /\ mode = "status" /\ pc = "idle" /\ rc = 0
  /\ out.reason = <<"up-to-date">>
  /\ meta.ok /\ meta.sha = remoteHead
  /\ stateFile = [kind |-> "json", value |-> remoteHead]
  /\ out.local_commit = remoteHead /\ head = remoteHead

=============================================================================
